---- MODULE Spec2Model ----
(***************************************************************************)
(* Orderbook-based escrow contract: the order store (ORDERS, ORDER_COUNT), *)
(* the handlers execute_open_order and execute_close_order, and the        *)
(* settlement dispatcher send_tokens, as a state machine.                  *)
(*                                                                         *)
(* A call is one atomic step (the host runs a handler to completion); the  *)
(* call and its response stay in `last` until the host hands the response  *)
(* back (Return).  received, paid, issued, settled and at_open are history *)
(* variables: they record what the calls took in, what the emitted         *)
(* messages pay out, which identifiers were returned, which orders were    *)
(* settled and what get_order answered right after each open.              *)
(*                                                                         *)
(* GenericBalance::add_tokens is called by no handler; it is exercised by  *)
(* a specification of its own (SpecMerge), which merges units into the     *)
(* balance `bal`, starting from GenericBalance::default(); `merged` is the *)
(* history of the units merged so far.                                     *)
(***************************************************************************)
EXTENDS Integers, Sequences, FiniteSets, TLC

VARIABLES ORDERS, ORDER_COUNT, last, received, paid, issued, settled, at_open,
          bal, merged

vars ==
    <<ORDERS, ORDER_COUNT, last, received, paid, issued, settled, at_open,
      bal, merged>>

(* ------------------------------ bounds ---------------------------------- *)

\* ORDER_COUNT is a u64; open_order is called only while fewer orders exist.
MaxOrders == 2

\* The number of add_tokens calls made on one balance.  The amounts merged
\* are at most 2 each, so every sum stays far below the Uint128 limit at
\* which `+=` panics.
MaxMerges == 3

(* --------------------------- input universe ----------------------------- *)

\* Account addresses the host accepts (addr_validate succeeds on them).
Addrs == {"maker", "taker", "other"}

\* Token contract addresses.
Tokens == {"abc-token", "xyz-token"}

\* A string the host's addr_validate rejects (shorter than an address).
InvalidAddrs == {"x"}

\* Native denominations.
Denoms == {"native", "uatom"}

\* Option<T> is a sequence of length 0 (None) or 1 (Some).
None == <<>>

Some(v) == <<v>>

Coin(d, a) == [denom |-> d, amount |-> a]

Cw20CoinVerified(c, a) == [address |-> c, amount |-> a]

\* cw20::Balance, the deposit a call carries: Native(Vec<Coin>) or Cw20(coin).
Native(coins) == [kind |-> "Native", coins |-> coins]

Cw20(token) == [kind |-> "Cw20", token |-> token]

GenericBalance(n, c) == [native |-> n, cw20 |-> c]

\* Callers of open_order.
Makers == {"maker"}

\* Deposits sent along with open_order: nothing, a zero coin, one coin,
\* a zero-amount token deposit and a token deposit.
OpenDeposits ==
    { Native(<<>>),
      Native(<<Coin("native", 0)>>),
      Native(<<Coin("native", 1)>>),
      Cw20(Cw20CoinVerified("abc-token", 0)),
      Cw20(Cw20CoinVerified("abc-token", 1)) }

\* Taker requirements sent along with open_order (caller supplied, any shape).
TakerTokens ==
    { GenericBalance(<<>>, <<>>),
      GenericBalance(<<Coin("native", 1), Coin("uatom", 2)>>, <<>>),
      GenericBalance(<<Coin("native", 1), Coin("native", 1)>>, <<>>),
      GenericBalance(<<>>, <<Cw20CoinVerified("abc-token", 2)>>),
      GenericBalance(<<>>, <<Cw20CoinVerified("xyz-token", 2)>>),
      GenericBalance(<<>>, <<Cw20CoinVerified("abc-token", 2),
                             Cw20CoinVerified("xyz-token", 2)>>),
      GenericBalance(<<Coin("native", 1)>>,
                     <<Cw20CoinVerified("xyz-token", 2)>>) }

\* Option<String> target addresses sent along with open_order: none, an
\* address of the chain, and a string that is no address.
Targets == {None, Some("taker")} \cup {Some(a) : a \in InvalidAddrs}

\* Deposits sent along with close_order.
CloseDeposits ==
    { Native(<<>>),
      Native(<<Coin("native", 1)>>),
      Native(<<Coin("native", 1), Coin("uatom", 2)>>),
      Native(<<Coin("uatom", 2), Coin("native", 1)>>),
      Cw20(Cw20CoinVerified("abc-token", 1)),
      Cw20(Cw20CoinVerified("abc-token", 2)),
      Cw20(Cw20CoinVerified("abc-token", 3)),
      Cw20(Cw20CoinVerified("xyz-token", 2)) }

\* Identifiers close_order is called with; 0 is never stored.
CloseIds == 0..MaxOrders

\* Identifiers get_order is called with.
QueryIds == 0..MaxOrders

\* The units handed to add_tokens: native balances of one or two coins, one
\* with the same denomination twice, the empty one, zero-amount units, and
\* contract tokens.
MergeUnits ==
    { Native(<<>>),
      Native(<<Coin("native", 1)>>),
      Native(<<Coin("uatom", 2)>>),
      Native(<<Coin("native", 1), Coin("uatom", 2)>>),
      Native(<<Coin("native", 2), Coin("native", 1)>>),
      Native(<<Coin("uatom", 0)>>),
      Cw20(Cw20CoinVerified("abc-token", 1)),
      Cw20(Cw20CoinVerified("xyz-token", 2)),
      Cw20(Cw20CoinVerified("abc-token", 0)) }

(* ----------------------------- host and std ----------------------------- *)

\* Api::addr_validate: Ok(Addr) for an address of the chain, Err otherwise.
addr_validate_ok(s) == s \in Addrs \cup Tokens

\* The decimal digits, as characters.
Digits == <<"0", "1", "2", "3", "4", "5", "6", "7", "8", "9">>

RECURSIVE to_string(_)
\* u64::to_string: the decimal text, as the sequence of its characters.
to_string(n) ==
    IF n < 10 THEN <<Digits[n + 1]>>
    ELSE Append(to_string(n \div 10), Digits[(n % 10) + 1])

\* is_empty that only looks at the number of coins.
is_empty_no_coins(balance) ==
    IF balance.kind = "Native" THEN balance.coins = <<>>
    ELSE balance.token.amount = 0

\* Balance::is_empty: a native balance with no nonzero coin, or a zero token.
is_empty(balance) ==
    IF balance.kind = "Native"
    THEN ~ \E i \in 1..Len(balance.coins) : balance.coins[i].amount # 0
    ELSE balance.token.amount = 0

(* ------------------------------- state.rs ------------------------------- *)

Order(maker, maker_token, taker_token, target, open) ==
    [maker_address  |-> maker,
     maker_token    |-> maker_token,
     taker_token    |-> taker_token,
     target_address |-> target,
     is_open        |-> open]

\* ORDER_COUNT.may_load(store)?.unwrap_or_default()
order_count_or_default(count) == IF count = None THEN 0 ELSE count[1]

\* next_id that hands out the count it loaded, without the increment.
next_id_no_increment(count) ==
    LET id == order_count_or_default(count)
    IN  [id |-> id, ORDER_COUNT |-> Some(id)]

\* next_id that saves the count it loaded instead of the new id.
next_id_not_saved(count) ==
    LET id == order_count_or_default(count) + 1
    IN  [id |-> id, ORDER_COUNT |-> Some(id - 1)]

\* next_id: the id, and the ORDER_COUNT it saves.
next_id(count) ==
    LET id == order_count_or_default(count) + 1
    IN  [id |-> id, ORDER_COUNT |-> Some(id)]

\* Map::save that writes the record under every stored key.
save_clobber(orders, id, order) ==
    [k \in (DOMAIN orders) \cup {id} |-> order]

\* Map::save
save(orders, id, order) ==
    [k \in (DOMAIN orders) \cup {id} |-> IF k = id THEN order ELSE orders[k]]

\* Map::load that reports a missing key as a closed order.
load_result_closed(orders, id) ==
    IF id \in DOMAIN orders THEN "Ok" ELSE "OrderClosed"

\* Map::load: "Ok" when the key is stored, StdError::NotFound otherwise.
load_result(orders, id) ==
    IF id \in DOMAIN orders THEN "Ok" ELSE "StdNotFound"

\* GenericBalanceEq with the cw20 field left out of the comparison.
GenericBalanceEq_native_only(a, b) == a.native = b.native

\* #[derive(PartialEq)] on GenericBalance: Vec == Vec on both fields.
GenericBalanceEq(a, b) == a.native = b.native /\ a.cw20 = b.cw20

\* iter().enumerate().find_map(..) on the native coins: the first position
\* whose denom is the given one, 0 standing for None.
index_of_denom(native, denom) ==
    IF \E i \in 1..Len(native) : native[i].denom = denom
    THEN CHOOSE i \in 1..Len(native) :
            /\ native[i].denom = denom
            /\ \A j \in 1..(i - 1) : native[j].denom # denom
    ELSE 0

\* The body of the loop that pushes the coin whether or not its denom exists.
add_coin_push(native, token) == Append(native, token)

\* The body of the loop over balance.0: add to the entry found, else push.
add_coin(native, token) ==
    LET idx == index_of_denom(native, token.denom)
    IN  IF idx # 0
        THEN [native EXCEPT ![idx].amount = @ + token.amount]
        ELSE Append(native, token)

RECURSIVE add_native(_, _)
\* for token in balance.0 { .. }
add_native(native, coins) ==
    IF coins = <<>> THEN native
    ELSE add_native(add_coin(native, Head(coins)), Tail(coins))

\* find_map on the contract tokens: the first position whose address is the
\* given one, 0 standing for None.
index_of_address(cw20, address) ==
    IF \E i \in 1..Len(cw20) : cw20[i].address = address
    THEN CHOOSE i \in 1..Len(cw20) :
            /\ cw20[i].address = address
            /\ \A j \in 1..(i - 1) : cw20[j].address # address
    ELSE 0

\* The Cw20 arm that assigns the amount to the entry found instead of adding.
add_cw20_assign(cw20, token) ==
    LET idx == index_of_address(cw20, token.address)
    IN  IF idx # 0
        THEN [cw20 EXCEPT ![idx].amount = token.amount]
        ELSE Append(cw20, token)

\* The Cw20 arm of add_tokens: add to the entry found, else push.
add_cw20(cw20, token) ==
    LET idx == index_of_address(cw20, token.address)
    IN  IF idx # 0
        THEN [cw20 EXCEPT ![idx].amount = @ + token.amount]
        ELSE Append(cw20, token)

\* GenericBalance::add_tokens: the balance after `self.add_tokens(add)`.
add_tokens(self, add) ==
    IF add.kind = "Native"
    THEN [self EXCEPT !.native = add_native(self.native, add.coins)]
    ELSE [self EXCEPT !.cw20 = add_cw20(self.cw20, add.token)]

(* ------------------------------ contract.rs ----------------------------- *)

BankSend(to, amount) == [type |-> "bank", to_address |-> to, amount |-> amount]

WasmTransfer(contract, to, amount) ==
    [type |-> "wasm", contract_addr |-> contract,
     recipient |-> to, amount |-> amount]

\* send_tokens without the Cw20 transfers.
send_tokens_native_only(to, balance) ==
    IF balance.native = <<>> THEN <<>> ELSE <<BankSend(to, balance.native)>>

\* send_tokens with one BankMsg::Send per native coin.
send_tokens_per_coin(to, balance) ==
    [i \in 1..Len(balance.native) |-> BankSend(to, <<balance.native[i]>>)]
    \o [i \in 1..Len(balance.cw20) |->
            WasmTransfer(balance.cw20[i].address, to, balance.cw20[i].amount)]

\* send_tokens: one BankMsg::Send carrying the whole native vector when it is
\* not empty, then one Cw20 Transfer per cw20 entry, in order.
send_tokens(to, balance) ==
    (IF balance.native = <<>> THEN <<>> ELSE <<BankSend(to, balance.native)>>)
    \o [i \in 1..Len(balance.cw20) |->
            WasmTransfer(balance.cw20[i].address, to, balance.cw20[i].amount)]

\* An error return after the identifier counter was already advanced.
Err_after_next_id(kind, orders, count) ==
    [err |-> kind, ORDERS |-> orders,
     ORDER_COUNT |-> Some(order_count_or_default(count) + 1), id |-> 0,
     attributes |-> <<>>, messages |-> <<>>]

Err(kind, orders, count) ==
    [err |-> kind, ORDERS |-> orders, ORDER_COUNT |-> count, id |-> 0,
     attributes |-> <<>>, messages |-> <<>>]

\* The normalization that files a token deposit under the native side.
order_balance_one_side(balance) ==
    IF balance.kind = "Native"
    THEN GenericBalance(balance.coins, <<>>)
    ELSE GenericBalance(<<Coin(balance.token.address, balance.token.amount)>>,
                        <<>>)

\* The balance normalized into a GenericBalance with one side populated.
order_balance(balance) ==
    IF balance.kind = "Native"
    THEN GenericBalance(balance.coins, <<>>)
    ELSE GenericBalance(<<>>, <<balance.token>>)

\* The shape checks without the one on the number of cw20 entries.
taker_shape_invalid_any_cw20(t) ==
    \/ t.native = <<>> /\ t.cw20 = <<>>
    \/ t.native # <<>> /\ t.cw20 # <<>>

\* The three shape checks on message.taker_token.
taker_shape_invalid(t) ==
    \/ t.native = <<>> /\ t.cw20 = <<>>
    \/ t.native = <<>> /\ Len(t.cw20) > 1
    \/ t.native # <<>> /\ t.cw20 # <<>>

\* The check on the deposit's kind without its Cw20 arm.
maker_taker_clash_native_only(balance, t) ==
    balance.kind = "Native" /\ t.native # <<>>

\* The check on the deposit's kind without its Native arm.
maker_taker_clash_cw20_only(balance, t) ==
    /\ balance.kind = "Cw20"
    /\ t.cw20 # <<>> /\ t.cw20[1].address = balance.token.address

\* The check inside the match on the deposit's kind.
maker_taker_clash(balance, t) ==
    IF balance.kind = "Native"
    THEN t.native # <<>>
    ELSE t.cw20 # <<>> /\ t.cw20[1].address = balance.token.address

execute_open_order(orders, count, balance, sender, taker_token, target) ==
    IF is_empty(balance) THEN Err("EmptyBalance", orders, count)
    ELSE IF taker_shape_invalid(taker_token)
    THEN Err("OrderInvalid", orders, count)
    ELSE IF maker_taker_clash(balance, taker_token)
    THEN Err("OrderInvalid", orders, count)
    ELSE LET order == Order(sender, order_balance(balance), taker_token,
                            target, TRUE)
             n     == next_id(count)
         IN  [err |-> "Ok",
              ORDERS |-> save(orders, n.id, order),
              ORDER_COUNT |-> n.ORDER_COUNT,
              id |-> n.id,
              attributes |-> << <<"method", "open_order">>,
                                <<"order_id", to_string(n.id)>> >>,
              messages |-> <<>>]

\* order.is_open = false that leaves the flag as it was.
set_closed_not_flipped(order) == order

\* order.is_open = false that also empties the paid-out maker balance.
set_closed_drained(order) ==
    [order EXCEPT !.is_open = FALSE,
                  !.maker_token = GenericBalance(<<>>, <<>>)]

\* order.is_open = false
set_closed(order) == [order EXCEPT !.is_open = FALSE]

\* The check on order.is_open, never taken.
order_closed_never(order) == FALSE

\* The check on order.is_open.
order_closed(order) == ~ order.is_open

\* The match on order.target_address that also turns the maker away from
\* an order without target.
target_check_maker_excluded(order, taker_address) ==
    IF order.target_address = None
    THEN IF taker_address = order.maker_address THEN "OrderReserved" ELSE "Ok"
    ELSE IF ~ addr_validate_ok(order.target_address[1]) THEN "StdInvalidAddr"
    ELSE IF taker_address # order.target_address[1] THEN "OrderReserved"
    ELSE "Ok"

\* The match on order.target_address: "Ok", or the error it returns.
target_check(order, taker_address) ==
    IF order.target_address = None THEN "Ok"
    ELSE IF ~ addr_validate_ok(order.target_address[1]) THEN "StdInvalidAddr"
    ELSE IF taker_address # order.target_address[1] THEN "OrderReserved"
    ELSE "Ok"

execute_close_order(orders, count, balance, taker_address, order_id) ==
    IF load_result(orders, order_id) # "Ok"
    THEN Err(load_result(orders, order_id), orders, count)
    ELSE
    LET order == orders[order_id]
        taker_order_balance == order_balance(balance)
    IN  IF order_closed(order) THEN Err("OrderClosed", orders, count)
        ELSE IF target_check(order, taker_address) # "Ok"
        THEN Err(target_check(order, taker_address), orders, count)
        ELSE IF ~ GenericBalanceEq(taker_order_balance, order.taker_token)
        THEN Err("OrderUnmatched", orders, count)
        ELSE [err |-> "Ok",
              ORDERS |-> save(orders, order_id, set_closed(order)),
              ORDER_COUNT |-> count,
              id |-> order_id,
              attributes |-> << <<"method", "close_order">>,
                                <<"order_id", to_string(order_id)>> >>,
              messages |-> send_tokens(order.maker_address,
                                       taker_order_balance)
                           \o send_tokens(taker_address, order.maker_token)]

OrderResponse(order) ==
    [maker_address  |-> order.maker_address,
     maker_token    |-> order.maker_token,
     taker_token    |-> order.taker_token,
     target_address |-> order.target_address,
     is_open        |-> order.is_open]

\* query_order: the error, and the OrderResponse when there is none.
query_order(orders, id) ==
    IF load_result(orders, id) # "Ok"
    THEN [err |-> load_result(orders, id), response |-> None]
    ELSE [err |-> "Ok", response |-> Some(OrderResponse(orders[id]))]

(* --------------------------- history variables -------------------------- *)

\* An asset: a native denomination or a token contract.
Assets == {<<"native", d>> : d \in Denoms} \cup {<<"cw20", c>> : c \in Tokens}

RECURSIVE NativeSum(_, _)
\* Sum of the amounts of the coins of denomination d.
NativeSum(coins, d) ==
    IF coins = <<>> THEN 0
    ELSE (IF Head(coins).denom = d THEN Head(coins).amount ELSE 0)
         + NativeSum(Tail(coins), d)

RECURSIVE Cw20Sum(_, _)
\* Sum of the amounts of the token entries of contract c.
Cw20Sum(tokens, c) ==
    IF tokens = <<>> THEN 0
    ELSE (IF Head(tokens).address = c THEN Head(tokens).amount ELSE 0)
         + Cw20Sum(Tail(tokens), c)

\* Amount of asset k a GenericBalance holds.
AmountIn(gb, k) ==
    IF k[1] = "native" THEN NativeSum(gb.native, k[2])
    ELSE Cw20Sum(gb.cw20, k[2])

\* Amount of asset k a deposit carries.
AmountOf(balance, k) ==
    IF balance.kind = "Native"
    THEN IF k[1] = "native" THEN NativeSum(balance.coins, k[2]) ELSE 0
    ELSE IF k = <<"cw20", balance.token.address>>
         THEN balance.token.amount ELSE 0

Recipient(m) == IF m.type = "bank" THEN m.to_address ELSE m.recipient

\* Amount of asset k one emitted message moves.
MsgAmount(m, k) ==
    IF m.type = "bank"
    THEN IF k[1] = "native" THEN NativeSum(m.amount, k[2]) ELSE 0
    ELSE IF k = <<"cw20", m.contract_addr>> THEN m.amount ELSE 0

RECURSIVE Delivered(_, _, _)
\* Amount of asset k the messages msgs move to address a.
Delivered(msgs, a, k) ==
    IF msgs = <<>> THEN 0
    ELSE (IF Recipient(Head(msgs)) = a THEN MsgAmount(Head(msgs), k) ELSE 0)
         + Delivered(Tail(msgs), a, k)

RECURSIVE PaidOut(_, _)
\* Amount of asset k the messages msgs move, to anyone.
PaidOut(msgs, k) ==
    IF msgs = <<>> THEN 0
    ELSE MsgAmount(Head(msgs), k) + PaidOut(Tail(msgs), k)

(* -------------------------------- machine ------------------------------- *)

Call(op, sender, balance, taker_token, target, order_id, r) ==
    [op |-> op, sender |-> sender, balance |-> balance,
     taker_token |-> taker_token, target_address |-> target,
     order_id |-> order_id,
     err |-> r.err, id |-> r.id,
     attributes |-> r.attributes, messages |-> r.messages]

\* A get_order query and its answer.
Query(order_id, r) ==
    [op |-> "get_order", sender |-> "", balance |-> Native(<<>>),
     taker_token |-> GenericBalance(<<>>, <<>>), target_address |-> None,
     order_id |-> order_id,
     err |-> r.err, id |-> order_id,
     attributes |-> <<>>, messages |-> <<>>, response |-> r.response]

Init ==
    /\ ORDERS = <<>>
    /\ ORDER_COUNT = None
    /\ last = None
    /\ received = [k \in Assets |-> 0]
    /\ paid = [k \in Assets |-> 0]
    /\ issued = <<>>
    /\ settled = {}
    /\ at_open = <<>>
    /\ bal = GenericBalance(<<>>, <<>>)
    /\ merged = <<>>

\* The host runs execute_open_order; an Err leaves the storage as it was.
OpenOrder ==
    /\ last = None
    /\ order_count_or_default(ORDER_COUNT) < MaxOrders
    /\ \E sender \in Makers, balance \in OpenDeposits,
          taker_token \in TakerTokens, target \in Targets :
        LET r == execute_open_order(ORDERS, ORDER_COUNT, balance, sender,
                                    taker_token, target)
        IN  /\ ORDERS' = r.ORDERS
            /\ ORDER_COUNT' = r.ORDER_COUNT
            /\ last' = Some(Call("open_order", sender, balance, taker_token,
                                 target, 0, r))
            /\ received' = IF r.err = "Ok"
                           THEN [k \in Assets |->
                                    received[k] + AmountOf(balance, k)]
                           ELSE received
            /\ paid' = [k \in Assets |-> paid[k] + PaidOut(r.messages, k)]
            /\ issued' = IF r.err = "Ok" THEN Append(issued, r.id) ELSE issued
            /\ settled' = settled
            /\ at_open' =
                 IF r.err = "Ok"
                 THEN [k \in (DOMAIN at_open) \cup {r.id} |->
                          IF k = r.id
                          THEN query_order(r.ORDERS, r.id).response[1]
                          ELSE at_open[k]]
                 ELSE at_open
            /\ UNCHANGED <<bal, merged>>

\* The host runs execute_close_order; an Err leaves the storage as it was.
CloseOrder ==
    /\ last = None
    /\ \E sender \in Addrs, balance \in CloseDeposits, order_id \in CloseIds :
        LET r == execute_close_order(ORDERS, ORDER_COUNT, balance, sender,
                                     order_id)
        IN  /\ ORDERS' = r.ORDERS
            /\ ORDER_COUNT' = r.ORDER_COUNT
            /\ last' = Some(Call("close_order", sender, balance,
                                 GenericBalance(<<>>, <<>>), None,
                                 order_id, r))
            /\ received' = IF r.err = "Ok"
                           THEN [k \in Assets |->
                                    received[k] + AmountOf(balance, k)]
                           ELSE received
            /\ paid' = [k \in Assets |-> paid[k] + PaidOut(r.messages, k)]
            /\ issued' = issued
            /\ settled' = IF r.err = "Ok" THEN settled \cup {order_id}
                          ELSE settled
            /\ at_open' = at_open
            /\ UNCHANGED <<bal, merged>>

\* The host runs query_order; a query writes nothing.
QueryOrder ==
    /\ last = None
    /\ \E order_id \in QueryIds :
        /\ last' = Some(Query(order_id, query_order(ORDERS, order_id)))
        /\ UNCHANGED <<ORDERS, ORDER_COUNT, received, paid, issued, settled,
                       at_open, bal, merged>>

\* The host hands the response to the caller.
Return ==
    /\ last # None
    /\ last' = None
    /\ UNCHANGED <<ORDERS, ORDER_COUNT, received, paid, issued, settled,
                   at_open, bal, merged>>

Next == OpenOrder \/ CloseOrder \/ QueryOrder \/ Return

Spec == Init /\ [][Next]_vars

\* balance.add_tokens(add) on a balance built from GenericBalance::default().
AddTokens ==
    /\ Len(merged) < MaxMerges
    /\ \E add \in MergeUnits :
        /\ bal' = add_tokens(bal, add)
        /\ merged' = Append(merged, add)
    /\ UNCHANGED <<ORDERS, ORDER_COUNT, last, received, paid, issued, settled,
                   at_open>>

NextMerge == AddTokens

SpecMerge == Init /\ [][NextMerge]_vars

(* ------------------------ vocabulary of the properties ------------------ *)

\* The call whose response is in flight.
L == last[1]

\* A step in which the host runs a handler; its call is last'[1].
CallStep == last = None /\ last' # None

OpenStep == CallStep /\ last'[1].op = "open_order"

CloseStep == CallStep /\ last'[1].op = "close_order"

\* The (key, amount) pairs of a GenericBalance, as sets.
Pairs(gb) ==
    [native |-> {gb.native[i] : i \in 1..Len(gb.native)},
     cw20   |-> {gb.cw20[i] : i \in 1..Len(gb.cw20)}]

\* The (key, amount) pairs of a deposit, as sets.
DepositPairs(balance) ==
    IF balance.kind = "Native"
    THEN [native |-> {balance.coins[i] : i \in 1..Len(balance.coins)},
          cw20 |-> {}]
    ELSE [native |-> {}, cw20 |-> {balance.token}]

\* The deposit holds the same (key, amount) pairs as the requirement.
SetEqual(balance, requirement) == DepositPairs(balance) = Pairs(requirement)

\* The order has no target, or the sender is the target.
Permitted(order, sender) ==
    order.target_address = None \/ order.target_address = Some(sender)

\* The deposit holds nothing: every asset has amount zero in it.
EmptyDeposit(balance) == \A k \in Assets : AmountOf(balance, k) = 0

\* Every message of msgs is addressed to a.
AllTo(msgs, a) == \A i \in 1..Len(msgs) : Recipient(msgs[i]) = a

(* -------------------------------- C1 ------------------------------------ *)

\* C1: a successful close_order on order N by sender T with deposit D emits
\* first instructions addressed to the order's maker that deliver exactly D,
\* then instructions addressed to T that deliver exactly the order's stored
\* maker balance, nothing else, and the order is closed afterwards.
C1_CloseSettlesBothSides ==
    (last # None /\ L.op = "close_order" /\ L.err = "Ok") =>
        LET order == ORDERS[L.order_id]
            msgs  == L.messages
        IN  /\ ~ order.is_open
            /\ \E n \in 0..Len(msgs) :
                LET toMaker == SubSeq(msgs, 1, n)
                    toTaker == SubSeq(msgs, n + 1, Len(msgs))
                IN  /\ AllTo(toMaker, order.maker_address)
                    /\ AllTo(toTaker, L.sender)
                    /\ \A k \in Assets :
                        /\ Delivered(toMaker, order.maker_address, k)
                             = AmountOf(L.balance, k)
                        /\ Delivered(toTaker, L.sender, k)
                             = AmountIn(order.maker_token, k)

\* A taker other than the maker has closed an order whose two sides are both
\* token balances: two transfers were emitted.
C1_Witness ==
    /\ last # None /\ L.op = "close_order" /\ L.err = "Ok"
    /\ L.sender # ORDERS[L.order_id].maker_address
    /\ L.balance.kind = "Cw20"
    /\ ORDERS[L.order_id].maker_token.cw20 # <<>>
    /\ Len(L.messages) = 2

(* -------------------------------- C2 ------------------------------------ *)

\* C2: once a close_order on order N has succeeded, every later close_order
\* on N, whatever its sender and deposit, fails with OrderClosed, emits no
\* settlement instruction and changes nothing stored.
C2_SecondCloseFails ==
    [][(CloseStep /\ last'[1].order_id \in settled) =>
          /\ last'[1].err = "OrderClosed"
          /\ last'[1].messages = <<>>
          /\ UNCHANGED <<ORDERS, ORDER_COUNT, paid>>]_vars

\* A settled order was closed again by a permitted sender with a deposit
\* exactly equal to the taker requirement, and the call failed OrderClosed.
C2_Witness ==
    /\ last # None /\ L.op = "close_order" /\ L.err = "OrderClosed"
    /\ L.order_id \in settled
    /\ Permitted(ORDERS[L.order_id], L.sender)
    /\ order_balance(L.balance) = ORDERS[L.order_id].taker_token

(* -------------------------------- C3 ------------------------------------ *)

\* C3: close_order on an open order by a permitted sender with a deposit that
\* does not hold exactly the (key, amount) pairs of the taker requirement
\* fails with OrderUnmatched, and the order remains open.
C3_UnequalDepositUnmatched ==
    [][(/\ CloseStep
        /\ last'[1].order_id \in DOMAIN ORDERS
        /\ ORDERS[last'[1].order_id].is_open
        /\ Permitted(ORDERS[last'[1].order_id], last'[1].sender)
        /\ ~ SetEqual(last'[1].balance,
                      ORDERS[last'[1].order_id].taker_token)) =>
          /\ last'[1].err = "OrderUnmatched"
          /\ ORDERS' = ORDERS
          /\ ORDERS'[last'[1].order_id].is_open]_vars

\* An overpayment: the right token contract with a larger amount than
\* required was refused, and the order is still open.
C3_Witness ==
    /\ last # None /\ L.op = "close_order" /\ L.err = "OrderUnmatched"
    /\ ORDERS[L.order_id].is_open
    /\ L.balance.kind = "Cw20"
    /\ ORDERS[L.order_id].taker_token.native = <<>>
    /\ Len(ORDERS[L.order_id].taker_token.cw20) = 1
    /\ ORDERS[L.order_id].taker_token.cw20[1].address
         = L.balance.token.address
    /\ ORDERS[L.order_id].taker_token.cw20[1].amount < L.balance.token.amount

(* -------------------------------- C4 ------------------------------------ *)

\* C4: Balance equality is set equality: a close_order on an open order by a
\* permitted sender whose native deposit lists the same (denomination,
\* amount) pairs as the taker requirement, as many of them, in any sequence
\* order, succeeds.
C4_SetEqualCloseSucceeds ==
    [][(/\ CloseStep
        /\ last'[1].order_id \in DOMAIN ORDERS
        /\ ORDERS[last'[1].order_id].is_open
        /\ Permitted(ORDERS[last'[1].order_id], last'[1].sender)
        /\ last'[1].balance.kind = "Native"
        /\ Len(last'[1].balance.coins)
             = Len(ORDERS[last'[1].order_id].taker_token.native)
        /\ SetEqual(last'[1].balance,
                    ORDERS[last'[1].order_id].taker_token)) =>
          last'[1].err = "Ok"]_vars

(* -------------------------------- C5 ------------------------------------ *)

\* C5: for every open order that carries a target address, a close_order
\* from a sender other than the target fails with OrderReserved and leaves
\* the order open, and a close_order from the target with a deposit exactly
\* equal to the taker requirement succeeds.
C5_ReservedForTarget ==
    [][(/\ CloseStep
        /\ last'[1].order_id \in DOMAIN ORDERS
        /\ ORDERS[last'[1].order_id].is_open
        /\ ORDERS[last'[1].order_id].target_address # None) =>
          LET order == ORDERS[last'[1].order_id]
          IN  /\ last'[1].sender # order.target_address[1] =>
                    /\ last'[1].err = "OrderReserved"
                    /\ ORDERS' = ORDERS
              /\ (/\ last'[1].sender = order.target_address[1]
                  /\ order_balance(last'[1].balance) = order.taker_token) =>
                    last'[1].err = "Ok"]_vars

(* -------------------------------- C6 ------------------------------------ *)

RECURSIVE HeldOpen(_, _)
\* Amount of asset k in the maker balances of the open orders among ids.
HeldOpen(ids, k) ==
    IF ids = {} THEN 0
    ELSE LET id == CHOOSE i \in ids : TRUE
         IN  (IF ORDERS[id].is_open
              THEN AmountIn(ORDERS[id].maker_token, k) ELSE 0)
             + HeldOpen(ids \ {id}, k)

\* C6: for every asset, what successful calls took in minus what the emitted
\* instructions pay out is what the maker balances of the open orders hold;
\* nothing is paid out that was not received, only a successful close_order
\* emits instructions, and it does so in the call that received a deposit
\* holding exactly the pairs of the taker requirement.
C6_EscrowSolvency ==
    /\ \A k \in Assets :
        /\ paid[k] <= received[k]
        /\ received[k] - paid[k] = HeldOpen(DOMAIN ORDERS, k)
    /\ (last # None /\ L.messages # <<>>) =>
        /\ L.op = "close_order" /\ L.err = "Ok"
        /\ SetEqual(L.balance, ORDERS[L.order_id].taker_token)
        /\ \A k \in Assets :
            PaidOut(L.messages, k)
                = AmountOf(L.balance, k)
                  + AmountIn(ORDERS[L.order_id].maker_token, k)

\* One order has been settled while another one is still open and holds
\* its maker's deposit.
C6_Witness ==
    /\ settled # {}
    /\ \E id \in DOMAIN ORDERS : ORDERS[id].is_open
    /\ \E k \in Assets : paid[k] > 0 /\ received[k] > paid[k]

(* -------------------------------- C7 ------------------------------------ *)

\* The value of one decimal digit character.
DigitValue(c) == (CHOOSE d \in 1..10 : Digits[d] = c) - 1

RECURSIVE ParseDecimal(_)
\* The number a sequence of decimal digit characters denotes.
ParseDecimal(text) ==
    IF text = <<>> THEN 0
    ELSE 10 * ParseDecimal(SubSeq(text, 1, Len(text) - 1))
         + DigitValue(text[Len(text)])

\* C7: the identifiers successful open_order calls return are 1, 2, 3, ...
\* in call order (each the number of earlier successful opens plus one),
\* whatever close_order calls and failed calls happen in between, and the
\* response reports that identifier.
C7_IdentifiersCountOpens ==
    /\ \A i \in 1..Len(issued) : issued[i] = i
    /\ (last # None /\ L.op = "open_order" /\ L.err = "Ok") =>
        /\ L.id = Len(issued)
        /\ L.attributes[2][1] = "order_id"
        /\ ParseDecimal(L.attributes[2][2]) = Len(issued)

\* The second open succeeds after the first order was settled.
C7_Witness ==
    /\ last # None /\ L.op = "open_order" /\ L.err = "Ok"
    /\ L.id = 2
    /\ settled = {1}

(* -------------------------------- C8 ------------------------------------ *)

\* No order was stored and no identifier was consumed in this step.
NothingStored == UNCHANGED <<ORDERS, ORDER_COUNT, issued>>

\* C8: open_order with an empty deposit (no native coin of nonzero amount,
\* or a token deposit of amount zero) fails with EmptyBalance whatever the
\* taker requirement is, stores no order and consumes no identifier.
C8_EmptyDepositRejected ==
    [][(OpenStep /\ EmptyDeposit(last'[1].balance)) =>
          /\ last'[1].err = "EmptyBalance"
          /\ NothingStored]_vars

\* With an order already stored, a deposit of one zero-amount coin, sent
\* with a taker requirement that names no asset, was refused as empty.
C8_Witness ==
    /\ issued # <<>>
    /\ last # None /\ L.op = "open_order" /\ L.err = "EmptyBalance"
    /\ L.balance.kind = "Native" /\ L.balance.coins # <<>>
    /\ L.taker_token = GenericBalance(<<>>, <<>>)

(* -------------------------------- C9 ------------------------------------ *)

\* C9: open_order with a non-empty deposit and a taker requirement that
\* names no asset, more than one contract-token entry, or both native and
\* contract-token entries fails with OrderInvalid, stores no order and
\* consumes no identifier.
C9_MalformedRequirementRejected ==
    [][(/\ OpenStep
        /\ ~ EmptyDeposit(last'[1].balance)
        /\ \/ Len(last'[1].taker_token.native)
                + Len(last'[1].taker_token.cw20) = 0
           \/ Len(last'[1].taker_token.cw20) > 1
           \/ /\ Len(last'[1].taker_token.native) > 0
              /\ Len(last'[1].taker_token.cw20) > 0) =>
          /\ last'[1].err = "OrderInvalid"
          /\ NothingStored]_vars

\* With an order already stored, a native deposit was sent with a
\* requirement of two contract tokens and no native coin, and was refused.
C9_Witness ==
    /\ issued # <<>>
    /\ last # None /\ L.op = "open_order" /\ L.err = "OrderInvalid"
    /\ L.balance.kind = "Native"
    /\ L.taker_token.native = <<>>
    /\ Len(L.taker_token.cw20) = 2

(* -------------------------------- C10 ----------------------------------- *)

\* The requirement is one contract-token entry and nothing else.
OneToken(t) == t.native = <<>> /\ Len(t.cw20) = 1

\* The requirement is native coins and nothing else.
OnlyNative(t) == t.native # <<>> /\ t.cw20 = <<>>

\* C10: with a non-empty deposit, open_order fails with OrderInvalid, stores
\* no order and consumes no identifier when deposit and requirement are both
\* native, and when the deposit is a contract token and the requirement
\* names the same contract address, whatever the amounts; a contract-token
\* deposit with a requirement of one other contract token, or of native
\* coins, is accepted.
C10_SameKindRejected ==
    [][(OpenStep /\ ~ EmptyDeposit(last'[1].balance)) =>
          LET b == last'[1].balance
              t == last'[1].taker_token
          IN  /\ (b.kind = "Native" /\ t.native # <<>>) =>
                    last'[1].err = "OrderInvalid" /\ NothingStored
              /\ (/\ b.kind = "Cw20"
                  /\ \E i \in 1..Len(t.cw20) :
                        t.cw20[i].address = b.token.address) =>
                    last'[1].err = "OrderInvalid" /\ NothingStored
              /\ (/\ b.kind = "Cw20"
                  /\ \/ OnlyNative(t)
                     \/ OneToken(t) /\ t.cw20[1].address # b.token.address) =>
                    last'[1].err = "Ok"]_vars

\* With an order already stored, a contract-token deposit was sent with a
\* requirement of the same contract and a different amount, and was refused.
C10_Witness ==
    /\ issued # <<>>
    /\ last # None /\ L.op = "open_order" /\ L.err = "OrderInvalid"
    /\ L.balance.kind = "Cw20"
    /\ OneToken(L.taker_token)
    /\ L.taker_token.cw20[1].address = L.balance.token.address
    /\ L.taker_token.cw20[1].amount # L.balance.token.amount

(* -------------------------------- C11 ----------------------------------- *)

\* The four fields of an OrderResponse that an order keeps for life.
Terms(response) ==
    <<response.maker_address, response.maker_token,
      response.taker_token, response.target_address>>

\* C11: for every order ever opened, get_order reports the maker address,
\* maker balance, taker requirement and target address it reported right
\* after the open, in every later state; after a successful close_order on
\* the order it reports is_open = false.
C11_RoundTrip ==
    /\ \A id \in DOMAIN at_open :
        LET q == query_order(ORDERS, id)
        IN  /\ q.err = "Ok"
            /\ at_open[id].is_open
            /\ Terms(q.response[1]) = Terms(at_open[id])
            /\ id \in settled => ~ q.response[1].is_open
    /\ (last # None /\ L.op = "get_order" /\ L.order_id \in DOMAIN at_open) =>
        /\ L.err = "Ok"
        /\ Terms(L.response[1]) = Terms(at_open[L.order_id])
        /\ L.response[1].is_open = (L.order_id \notin settled)

\* get_order was called on an order that a close_order has settled.
C11_Witness ==
    /\ last # None /\ L.op = "get_order" /\ L.err = "Ok"
    /\ L.order_id \in settled

(* -------------------------------- C12 ----------------------------------- *)

\* The balances the dispatcher can be applied to in this state: both
\* balances of every stored order and the normalized deposit of the call in
\* flight.
BalancesInPlay ==
    {ORDERS[id].maker_token : id \in DOMAIN ORDERS}
    \cup {ORDERS[id].taker_token : id \in DOMAIN ORDERS}
    \cup (IF last = None THEN {} ELSE {order_balance(L.balance)})

\* msgs is one native payment per native entry of b, then one token
\* transfer per contract-token entry of b, all to a, in the order of b.
OnePerEntry(msgs, a, b) ==
    /\ Len(msgs) = Len(b.native) + Len(b.cw20)
    /\ \A i \in 1..Len(b.native) :
        msgs[i] = BankSend(a, <<b.native[i]>>)
    /\ \A i \in 1..Len(b.cw20) :
        msgs[Len(b.native) + i]
            = WasmTransfer(b.cw20[i].address, a, b.cw20[i].amount)

\* msgs is one native payment carrying all native entries of b when there
\* are any, then one token transfer per contract-token entry of b, all to
\* a, in the order of b.
OneBankThenPerToken(msgs, a, b) ==
    LET n == IF b.native = <<>> THEN 0 ELSE 1
    IN  /\ Len(msgs) = n + Len(b.cw20)
        /\ n = 1 =>
            /\ msgs[1].type = "bank"
            /\ msgs[1].to_address = a
            /\ msgs[1].amount = b.native
        /\ \A i \in 1..Len(b.cw20) :
            /\ msgs[n + i].type = "wasm"
            /\ msgs[n + i].contract_addr = b.cw20[i].address
            /\ msgs[n + i].recipient = a
            /\ msgs[n + i].amount = b.cw20[i].amount
        /\ (b.native = <<>> /\ b.cw20 = <<>>) => msgs = <<>>

EverStored(id) == \E i \in 1..Len(issued) : issued[i] = id

\* C13: close_order and get_order on an identifier under which no order was
\* ever stored fail with the storage layer's not-found error, change nothing
\* stored and emit no settlement instruction.
C13_UnknownIdNotFound ==
    [][(/\ CallStep
        /\ last'[1].op \in {"close_order", "get_order"}
        /\ ~ EverStored(last'[1].order_id)) =>
          /\ last'[1].err = "StdNotFound"
          /\ last'[1].messages = <<>>
          /\ UNCHANGED <<ORDERS, ORDER_COUNT, paid>>]_vars

\* With one order stored, close_order was called with a matching deposit on
\* the next identifier, which is not stored yet, and failed not-found.
C13_Witness ==
    /\ last # None /\ L.op = "close_order" /\ L.err = "StdNotFound"
    /\ issued = <<1>> /\ L.order_id = 2
    /\ order_balance(L.balance) = ORDERS[1].taker_token

(* -------------------------------- C14 ----------------------------------- *)

\* C14: every open_order or close_order call that returns an error leaves
\* the identifier counter and every stored order record exactly as they
\* were, and emits no settlement instruction.
C14_ErrorsChangeNothing ==
    [][(/\ CallStep
        /\ last'[1].op \in {"open_order", "close_order"}
        /\ last'[1].err # "Ok") =>
          /\ ORDERS' = ORDERS
          /\ ORDER_COUNT' = ORDER_COUNT
          /\ last'[1].messages = <<>>
          /\ paid' = paid]_vars

\* With one order open and one settled, a close_order of the open one was
\* refused because the sender is not its target.
C14_Witness ==
    /\ last # None /\ L.op = "close_order" /\ L.err = "OrderReserved"
    /\ settled # {}
    /\ ORDERS[L.order_id].is_open

(* -------------------------------- C15 ----------------------------------- *)

\* C15: a successful open_order by sender M with deposit D, taker
\* requirement R and target X stores under the returned identifier an open
\* order with maker address M, maker balance D on the side of D's kind and
\* nothing on the other side, taker requirement R and target X; it reports
\* the method name and the identifier and emits no instruction.
C15_OpenStoresOrder ==
    (last # None /\ L.op = "open_order" /\ L.err = "Ok") =>
        /\ L.id \in DOMAIN ORDERS
        /\ LET order == ORDERS[L.id]
           IN  /\ order.maker_address = L.sender
               /\ IF L.balance.kind = "Native"
                  THEN /\ order.maker_token.native = L.balance.coins
                       /\ order.maker_token.cw20 = <<>>
                  ELSE /\ order.maker_token.native = <<>>
                       /\ order.maker_token.cw20 = <<L.balance.token>>
               /\ order.taker_token = L.taker_token
               /\ order.target_address = L.target_address
               /\ order.is_open
        /\ L.attributes[1] = <<"method", "open_order">>
        /\ L.attributes[2] = <<"order_id", to_string(L.id)>>
        /\ L.messages = <<>>

\* A token deposit opened the second order, reserved for a target.
C15_Witness ==
    /\ last # None /\ L.op = "open_order" /\ L.err = "Ok"
    /\ L.id = 2
    /\ L.balance.kind = "Cw20"
    /\ L.target_address = Some("taker")

(* -------------------------------- C16 ----------------------------------- *)

\* C16: an order goes from open to closed and stays closed: no step turns
\* is_open from false to true, no step removes a stored order, and a
\* close_order succeeds only on an order that no close_order has settled
\* before, so at most one close_order per identifier succeeds.
C16_ClosedIsAbsorbing ==
    [][/\ \A id \in DOMAIN ORDERS :
            /\ id \in DOMAIN ORDERS'
            /\ ~ ORDERS[id].is_open => ~ ORDERS'[id].is_open
       /\ (CloseStep /\ last'[1].err = "Ok") =>
            /\ last'[1].order_id \notin settled
            /\ ORDERS[last'[1].order_id].is_open
            /\ ~ ORDERS'[last'[1].order_id].is_open
       /\ \A id \in settled : ~ ORDERS[id].is_open]_vars

\* Two orders have both been settled, and a second taker's close_order with
\* the matching deposit on one of them was refused.
C16_Witness ==
    /\ settled = {1, 2}
    /\ last # None /\ L.op = "close_order" /\ L.err = "OrderClosed"
    /\ order_balance(L.balance) = ORDERS[L.order_id].taker_token
    /\ L.sender = "other"

(* -------------------------------- C17 ----------------------------------- *)

\* The first check of close_order that fails, in the order not-found,
\* OrderClosed, OrderReserved, OrderUnmatched.
FirstFailing(id, sender, balance) ==
    IF id \notin DOMAIN ORDERS THEN "StdNotFound"
    ELSE IF ~ ORDERS[id].is_open THEN "OrderClosed"
    ELSE IF /\ ORDERS[id].target_address # None
            /\ ORDERS[id].target_address # Some(sender) THEN "OrderReserved"
    ELSE IF order_balance(balance) # ORDERS[id].taker_token
    THEN "OrderUnmatched"
    ELSE "Ok"

\* C17: close_order applies its checks in the order not-found, OrderClosed,
\* OrderReserved, OrderUnmatched and reports the first that fails; so a
\* close of a closed order fails OrderClosed whatever the sender and the
\* deposit, and a close of an open reserved order by another sender fails
\* OrderReserved whatever the deposit.
C17_FirstFailingCheck ==
    [][CloseStep =>
          last'[1].err = FirstFailing(last'[1].order_id, last'[1].sender,
                                      last'[1].balance)]_vars

(* -------------------------------- C18 ----------------------------------- *)

\* The taker requirement names exactly one asset kind.
OneKind(t) ==
    \/ t.native # <<>> /\ t.cw20 = <<>>
    \/ t.native = <<>> /\ Len(t.cw20) = 1

\* The maker balance holds something, on exactly one side.
OneSideHeld(m) ==
    /\ \E k \in Assets : AmountIn(m, k) > 0
    /\ (m.native = <<>>) # (m.cw20 = <<>>)

\* Maker and taker sides are not both native and share no token contract.
DifferentAssets(m, t) ==
    /\ ~ (m.native # <<>> /\ t.native # <<>>)
    /\ \A i \in 1..Len(m.cw20) : \A j \in 1..Len(t.cw20) :
        m.cw20[i].address # t.cw20[j].address

\* C18: every stored order is well formed: its taker requirement names
\* exactly one asset kind, its maker balance is non-empty with exactly one
\* side populated, and the two are not both native and not the same token
\* contract.
C18_StoredOrdersWellFormed ==
    \A id \in DOMAIN ORDERS :
        /\ OneKind(ORDERS[id].taker_token)
        /\ OneSideHeld(ORDERS[id].maker_token)
        /\ DifferentAssets(ORDERS[id].maker_token, ORDERS[id].taker_token)

\* Two orders are stored: one with a native maker balance, one that swaps a
\* token for another token.
C18_Witness ==
    /\ DOMAIN ORDERS = {1, 2}
    /\ ORDERS[1].maker_token.native # <<>>
    /\ ORDERS[2].maker_token.cw20 # <<>>
    /\ ORDERS[2].taker_token.cw20 # <<>>

(* -------------------------------- C19 ----------------------------------- *)

\* C19: a successful open_order leaves every order stored before it
\* unchanged; a successful close_order on order N changes N's is_open flag
\* and nothing else: every other order record, N's other fields and the
\* identifier counter stay as they were.
C19_OrdersIndependent ==
    [][/\ (OpenStep /\ last'[1].err = "Ok") =>
            \A id \in DOMAIN ORDERS :
                id \in DOMAIN ORDERS' /\ ORDERS'[id] = ORDERS[id]
       /\ (CloseStep /\ last'[1].err = "Ok") =>
            /\ ORDER_COUNT' = ORDER_COUNT
            /\ DOMAIN ORDERS' = DOMAIN ORDERS
            /\ \A id \in DOMAIN ORDERS :
                ORDERS'[id] =
                    IF id = last'[1].order_id
                    THEN [ORDERS[id] EXCEPT !.is_open = FALSE]
                    ELSE ORDERS[id]]_vars

\* The second order was closed while the first one is still open.
C19_Witness ==
    /\ last # None /\ L.op = "close_order" /\ L.err = "Ok"
    /\ L.order_id = 2
    /\ ORDERS[1].is_open

(* -------------------------------- C20 ----------------------------------- *)

\* C20: for every open order with no target address, a close_order from any
\* sender, the maker included, with a deposit equal to the taker requirement
\* succeeds.
C20_AnySenderMayClose ==
    [][(/\ CloseStep
        /\ last'[1].order_id \in DOMAIN ORDERS
        /\ ORDERS[last'[1].order_id].is_open
        /\ ORDERS[last'[1].order_id].target_address = None
        /\ order_balance(last'[1].balance)
             = ORDERS[last'[1].order_id].taker_token) =>
          /\ last'[1].err = "Ok"
          /\ ~ ORDERS'[last'[1].order_id].is_open]_vars

\* The maker has closed its own order, which had no target.
C20_Witness ==
    /\ last # None /\ L.op = "close_order" /\ L.err = "Ok"
    /\ L.sender = ORDERS[L.order_id].maker_address
    /\ ORDERS[L.order_id].target_address = None

(* -------------------------------- C21 ----------------------------------- *)

\* Every address the host accepts as a sender: accounts and token contracts.
Senders == Addrs \cup Tokens

\* The deposit that delivers a one-kind requirement entry for entry.
MatchingDeposit(requirement) ==
    IF requirement.cw20 = <<>> THEN Native(requirement.native)
    ELSE Cw20(requirement.cw20[1])

\* Some sender and some deposit make close_order succeed on the order id.
Closable(id) ==
    \E sender \in Senders,
       balance \in CloseDeposits \cup {MatchingDeposit(ORDERS[id].taker_token)} :
        execute_close_order(ORDERS, ORDER_COUNT, balance, sender, id).err = "Ok"

\* C21: no order can be locked forever: in every reachable state, for every
\* open order there is a sender address and a deposit for which close_order
\* succeeds, whatever target address string and taker requirement open_order
\* accepted.
C21_NoOrderLocked ==
    \A id \in DOMAIN ORDERS : ORDERS[id].is_open => Closable(id)

(* -------------------------------- C22 ----------------------------------- *)

\* C22: in every reachable state the stored order identifiers are exactly
\* 1..counter, where counter is the persisted order count (absent counting as
\* 0): no gaps, identifier 0 is never stored, no identifier above the counter
\* is stored; and a successful open_order never overwrites a stored record.
C22_IdentifiersDense ==
    [][/\ DOMAIN ORDERS = 1..order_count_or_default(ORDER_COUNT)
       /\ DOMAIN ORDERS' = 1..order_count_or_default(ORDER_COUNT')
       /\ 0 \notin DOMAIN ORDERS'
       /\ (OpenStep /\ last'[1].err = "Ok") =>
            /\ last'[1].id \notin DOMAIN ORDERS
            /\ DOMAIN ORDERS' = (DOMAIN ORDERS) \cup {last'[1].id}
            /\ \A id \in DOMAIN ORDERS : ORDERS'[id] = ORDERS[id]]_vars

\* A second open_order has succeeded after the first order was settled: both
\* records are stored and the counter is 2.
C22_Witness ==
    /\ last # None /\ L.op = "open_order" /\ L.err = "Ok"
    /\ L.id = 2
    /\ ORDER_COUNT = Some(2)
    /\ DOMAIN ORDERS = {1, 2}
    /\ 1 \in settled

(* -------------------------------- C23 ----------------------------------- *)

\* The entries of one sequence of a GenericBalance, as (asset, amount) records.
Entries(gb, side) ==
    IF side = "native"
    THEN [i \in 1..Len(gb.native) |->
            [key |-> <<"native", gb.native[i].denom>>,
             amount |-> gb.native[i].amount]]
    ELSE [i \in 1..Len(gb.cw20) |->
            [key |-> <<"cw20", gb.cw20[i].address>>,
             amount |-> gb.cw20[i].amount]]

\* The entries a unit brings, in the order add_tokens visits them.
UnitEntries(unit) ==
    IF unit.kind = "Native"
    THEN [i \in 1..Len(unit.coins) |->
            [key |-> <<"native", unit.coins[i].denom>>,
             amount |-> unit.coins[i].amount]]
    ELSE <<[key |-> <<"cw20", unit.token.address>>,
            amount |-> unit.token.amount]>>

\* The sequence the unit is merged into.
SideOf(unit) == IF unit.kind = "Native" THEN "native" ELSE "cw20"

Keys(entries) == {entries[i].key : i \in 1..Len(entries)}

\* The first position of key k in entries (k occurs in entries).
FirstAt(entries, k) ==
    CHOOSE i \in 1..Len(entries) :
        /\ entries[i].key = k
        /\ \A j \in 1..(i - 1) : entries[j].key # k

\* No key occurs twice in either sequence of gb.
UniqueKeys(gb) ==
    \A side \in {"native", "cw20"} :
        \A i, j \in 1..Len(Entries(gb, side)) :
            Entries(gb, side)[i].key = Entries(gb, side)[j].key => i = j

RECURSIVE MergedSum(_, _)
\* The amount of asset k over all the units of a history of merges.
MergedSum(units, k) ==
    IF units = <<>> THEN 0
    ELSE AmountOf(Head(units), k) + MergedSum(Tail(units), k)

\* new is old with the unit merged the way the claim describes: an entry whose
\* key the unit holds has the unit's amount added and stays where it was, no
\* other entry changes, and the keys that were missing are appended at the
\* end, one entry each, in the order the unit first brings them.
MergedAsDescribed(old, unit, new) ==
    LET side  == SideOf(unit)
        other == IF side = "native" THEN "cw20" ELSE "native"
        o == Entries(old, side)
        n == Entries(new, side)
        u == UnitEntries(unit)
        fresh == Keys(u) \ Keys(o)
    IN  /\ Entries(new, other) = Entries(old, other)
        /\ Len(n) = Len(o) + Cardinality(fresh)
        /\ \A i \in 1..Len(o) :
            /\ n[i].key = o[i].key
            /\ n[i].amount = o[i].amount + AmountOf(unit, o[i].key)
        /\ \A i \in (Len(o) + 1)..Len(n) :
            /\ n[i].key \in fresh
            /\ n[i].amount = AmountOf(unit, n[i].key)
            /\ \A j \in (Len(o) + 1)..(i - 1) :
                FirstAt(u, n[j].key) < FirstAt(u, n[i].key)

\* An add_tokens step; the unit merged is the last one of merged'.
MergeStep == merged' # merged

\* C23: add_tokens adds the amount of a unit whose key exists to that entry
\* and changes no other entry and no position, and appends one entry at the
\* end for a unit whose key is missing; so, starting from the empty balance,
\* after every sequence of merges the keys of each sequence are unique and
\* each key's amount is the sum of the amounts merged for it.
C23_MergeAddsOrAppends ==
    [][MergeStep =>
          /\ MergedAsDescribed(bal, merged'[Len(merged')], bal')
          /\ UniqueKeys(bal')
          /\ \A k \in Assets : AmountIn(bal', k) = MergedSum(merged', k)]_vars

\* Three merges were made; the last one brought the denomination "native"
\* twice and was added to the second of two native entries.
C23_Witness ==
    /\ Len(merged) = MaxMerges
    /\ merged[Len(merged)] = Native(<<Coin("native", 2), Coin("native", 1)>>)
    /\ Len(bal.native) = 2
    /\ bal.native[1].denom = "uatom"
    /\ bal.native[2] = Coin("native", 4)

(* -------------------------------- C24 ----------------------------------- *)

\* The keys the unit brings are all held by gb already.
KeysHeld(gb, unit) ==
    Keys(UnitEntries(unit)) \subseteq Keys(Entries(gb, SideOf(unit)))

\* old is an initial segment of new, in both sequences.
Extends(new, old) ==
    /\ Len(new.native) >= Len(old.native)
    /\ SubSeq(new.native, 1, Len(old.native)) = old.native
    /\ Len(new.cw20) >= Len(old.cw20)
    /\ SubSeq(new.cw20, 1, Len(old.cw20)) = old.cw20

\* C24 as stated: merging a zero-amount unit into a balance has no effect,
\* the resulting balance equals the original one and no zero-amount entry
\* is created.
C24_ZeroMergeNoEffect ==
    [][(MergeStep /\ EmptyDeposit(merged'[Len(merged')])) => bal' = bal]_vars

\* C24, amended: merging a zero-amount unit changes no amount and no existing
\* entry; the resulting balance equals the original one when the unit's key
\* is already held, and otherwise it is the original one with zero-amount
\* entries appended for the missing keys, which is a different balance.
C24_ZeroMergeKeepsAmounts ==
    [][(MergeStep /\ EmptyDeposit(merged'[Len(merged')])) =>
          LET unit == merged'[Len(merged')]
          IN  /\ \A k \in Assets : AmountIn(bal', k) = AmountIn(bal, k)
              /\ Extends(bal', bal)
              /\ KeysHeld(bal, unit) => bal' = bal
              /\ ~ KeysHeld(bal, unit) =>
                    /\ bal' # bal
                    /\ ~ GenericBalanceEq(bal', bal)
                    /\ \A i \in (Len(bal.native) + 1)..Len(bal'.native) :
                        bal'.native[i].amount = 0
                    /\ \A i \in (Len(bal.cw20) + 1)..Len(bal'.cw20) :
                        bal'.cw20[i].amount = 0]_vars

\* A zero-amount token of a contract the balance did not hold was merged
\* last: the balance now carries a zero-amount entry for it.
C24_Witness ==
    /\ Len(merged) >= 2
    /\ merged[Len(merged)] = Cw20(Cw20CoinVerified("abc-token", 0))
    /\ bal.native # <<>>
    /\ bal.cw20 = <<Cw20CoinVerified("abc-token", 0)>>

(* -------------------------------- C25 ----------------------------------- *)

\* C25: in every reachable state each balance held in a stored order, the
\* maker balance and the caller-supplied taker requirement, has unique
\* denominations in its native sequence and unique addresses in its
\* contract-token sequence.
C25_StoredBalancesUnique ==
    \A id \in DOMAIN ORDERS :
        /\ UniqueKeys(ORDERS[id].maker_token)
        /\ UniqueKeys(ORDERS[id].taker_token)

====
